---- MODULE Spec2Model ----
(***************************************************************************)
(* A model of nnqf_filter (src/nnqf_filter.py, lines 40-108): the nearest  *)
(* neighbours quantile filter.  The state is the function's arguments and  *)
(* local variables plus a program counter; there is one action per         *)
(* statement of the body.                                                  *)
(*                                                                         *)
(* Numbers.  Feature values and outputs are small integers; everything the *)
(* code derives from them (variances, weights, weighted features,          *)
(* distances, quantiles) is an exact rational [n |-> numerator,            *)
(* d |-> denominator], kept in lowest terms with d > 0.  A denominator 0   *)
(* stands for the IEEE values numpy produces on a division by zero:        *)
(* n /= 0, d = 0 is +-inf and n = 0, d = 0 is nan.  Rounding of float64    *)
(* is not modelled.                                                        *)
(*                                                                         *)
(* Indices.  indx holds the 0-based sample indices sklearn returns; a      *)
(* numpy vector v is a sequence whose element v[i] of the code is          *)
(* v[i + 1] here.                                                          *)
(***************************************************************************)
EXTENDS Integers, Sequences, FiniteSets

\* ------------------------------------------------------------------ bounds
MaxN == 3          \* samples (rows of x_input): N in 1..MaxN
NumFeatures == 2   \* features (columns of x_input): S
MaxX == 2          \* feature values are in 0..MaxX
MaxY == 2          \* output values are in 0..MaxY
MaxP == 2          \* minkowski_dist is in 1..MaxP
QDen == 4          \* q_quantile is in {0/QDen, 1/QDen, ..., QDen/QDen}

None == "None"     \* a name that is not bound (yet, or any more)

\* -------------------------------------------------------------- rationals
Abs(a) == IF a < 0 THEN -a ELSE a

RECURSIVE Gcd(_, _)
Gcd(a, b) == IF b = 0 THEN a ELSE Gcd(b, a % b)

\* a/b in lowest terms; b = 0 gives inf ([n |-> +-1, d |-> 0]) or nan (0/0)
Rat(a, b) ==
    IF b = 0 THEN [n |-> IF a > 0 THEN 1 ELSE IF a < 0 THEN -1 ELSE 0, d |-> 0]
    ELSE LET s == IF b < 0 THEN -1 ELSE 1
             g == Gcd(Abs(a), Abs(b))
         IN [n |-> (s * a) \div g, d |-> (s * b) \div g]

RInt(a) == [n |-> a, d |-> 1]
IsFinite(r) == r.d /= 0

RMul(r, s) == Rat(r.n * s.n, r.d * s.d)
RAdd(r, s) == Rat(r.n * s.d + s.n * r.d, r.d * s.d)
RSub(r, s) == Rat(r.n * s.d - s.n * r.d, r.d * s.d)
RAbs(r) == [n |-> Abs(r.n), d |-> r.d]
RLess(r, s) == r.n * s.d < s.n * r.d
RLeq(r, s) == r.n * s.d <= s.n * r.d

RECURSIVE RPow(_, _)
RPow(r, e) == IF e = 0 THEN RInt(1) ELSE RMul(r, RPow(r, e - 1))

RECURSIVE RSum(_)
RSum(s) == IF s = <<>> THEN RInt(0) ELSE RAdd(s[1], RSum(Tail(s)))

RECURSIVE ISum(_)
ISum(s) == IF s = <<>> THEN 0 ELSE s[1] + ISum(Tail(s))

\* ----------------------------------------------------- numpy / sklearn
Rows(X) == Len(X)                         \* np.size(X, 0)
Column(X, j) == [r \in 1..Rows(X) |-> X[r][j]]

\* np.mean of a vector
Mean(c) == RMul(RSum(c), Rat(1, Len(c)))

\* np.var(x_input, axis = 0)[j], ddof = 0: mean(abs(x - mean(x))**2)
Var(X, j) ==
    LET c == Column(X, j)
        mu == Mean(c)
    IN Mean([r \in 1..Len(c) |-> RPow(RAbs(RSub(c[r], mu)), 2)])

NpVar(X) == [j \in 1..Len(X[1]) |-> Var(X, j)]

\* var_weights**(-1): 1/v, and 1/0 = inf (a RuntimeWarning, not an exception)
Inverse(v) == Rat(v.d, v.n)

\* a faulty variant of Weighted: only the first column is weighted
WeightedFirstColumn(X, vw) ==
    [r \in 1..Rows(X) |-> [j \in 1..Len(X[r]) |->
        IF j = 1 THEN RMul(Inverse(vw[j]), X[r][j]) ELSE X[r][j]]]

\* var_weights**(-1) * x_input: column j is multiplied by 1/var_weights[j]
\* (inf * x = inf and inf * 0 = nan)
Weighted(X, vw) ==
    [r \in 1..Rows(X) |-> [j \in 1..Len(X[r]) |-> RMul(Inverse(vw[j]), X[r][j])]]

\* sklearn's check_array(force_all_finite = True)
AllFinite(X) == \A r \in 1..Rows(X) : \A j \in 1..Len(X[r]) : IsFinite(X[r][j])

\* a faulty variant of DistP: the order p is ignored (always Manhattan)
DistManhattan(a, b, p) == RSum([j \in 1..Len(a) |-> RAbs(RSub(a[j], b[j]))])

\* Minkowski distance of order p between the vectors a and b, to the power p
\* (the p-th root is monotone, so the ranking is that of the distance)
DistP(a, b, p) == RSum([j \in 1..Len(a) |-> RPow(RAbs(RSub(a[j], b[j])), p)])

\* fitted sample m comes before fitted sample m2 among the neighbours of the
\* query point pt (m, m2 are 0-based): nearer first, ties in the backend's order
Before(F, pt, m, m2, p, tie) ==
    LET dm == DistP(pt, F[m + 1], p)
        dm2 == DistP(pt, F[m2 + 1], p)
    IN \/ RLess(dm, dm2)
       \/ /\ dm = dm2
          /\ IF tie = "low" THEN m < m2 ELSE m > m2

NeighborRank(F, pt, m, p, tie) ==
    Cardinality({m2 \in 0..(Rows(F) - 1) : Before(F, pt, m2, m, p, tie)})

\* NearestNeighbors.kneighbors(Q)[1] of an estimator fitted on F: row r lists
\* the k fitted samples nearest to Q[r], nearest first.  A query point that
\* is itself a fitted sample is not excluded.
Kneighbors(nb, Q) ==
    [r \in 1..Rows(Q) |->
        [c \in 1..nb.n_neighbors |->
            CHOOSE m \in 0..(Rows(nb.fit_X) - 1) :
                NeighborRank(nb.fit_X, Q[r], m, nb.p, nb.tie) = c - 1]]

\* y_output[indx[i,:]]: fancy indexing with a row of indices
Take(y, idx) == [c \in 1..Len(idx) |-> y[idx[c] + 1]]
InRange(y, idx) == \A c \in 1..Len(idx) : idx[c] < Len(y)

\* np.vstack([A, row]): a 1-D A counts as one row; the result is 2-D
VStack(A, row) ==
    [ndim |-> 2, v |-> (IF A.ndim = 1 THEN <<A.v>> ELSE A.v) \o <<row>>]

\* np.sort of a vector of integers
SortRank(v, c) ==
    Cardinality({c2 \in 1..Len(v) : v[c2] < v[c] \/ (v[c2] = v[c] /\ c2 < c)})
Sorted(v) == [c \in 1..Len(v) |-> v[CHOOSE c2 \in 1..Len(v) : SortRank(v, c2) = c - 1]]

\* a faulty variant of Lerp: a sign slip in the interpolation
LerpSignSlip(a, b, t) == RAdd(RInt(a), RMul(t, RInt(b + a)))
\* a faulty variant of Lerp: the two order statistics are swapped
LerpSwapped(a, b, t) == RAdd(RInt(b), RMul(t, RInt(a - b)))

\* numpy's linear interpolation between a and b at fraction t
Lerp(a, b, t) == RAdd(RInt(a), RMul(t, RInt(b - a)))

\* np.quantile(v, q) of a vector, method 'linear':
\* virtual index (k - 1) * q, interpolated between the two order statistics
Quantile(v, q) ==
    LET s == Sorted(v)
        k == Len(v)
        h == RMul(RInt(k - 1), q)
        lo == h.n \div h.d
        hi == IF lo + 1 < k THEN lo + 1 ELSE lo
    IN Lerp(s[lo + 1], s[hi + 1], RSub(h, RInt(lo)))

\* np.quantile(A, q, axis = 1) of a 2-D array: one quantile per row
QuantileAxis1(A, q) == [r \in 1..Len(A.v) |-> Quantile(A.v[r], q)]

\* ------------------------------------------------------------------ inputs
Matrices(n) == [1..n -> [1..NumFeatures -> {RInt(a) : a \in 0..MaxX}]]
XInputs == UNION {Matrices(n) : n \in 1..MaxN}
\* output vectors of length N - 1, N and N + 1 (at least one element)
YOutputs(n) == UNION {[1..L -> 0..MaxY] : L \in {n - 1, n, n + 1} \ {0}}
Quantiles == {Rat(a, QDen) : a \in 0..QDen}
TieOrders == {"low", "high"}

\* ------------------------------------------------------------------- state
VARIABLES
    x_arg,          \* the caller's feature matrix (never mutated)
    x_input,        \* the local name x_input (rebound on line 82)
    y_output, num_neighbors, q_quantile, var_weighting, minkowski_dist,
    var_weights,    \* line 81
    x_neighbors,    \* line 89: the fitted estimator
    indx,           \* line 90
    y_neighbors,    \* lines 97-100: [ndim, v]
    i,              \* the loop variable of line 98 (next value of the range)
    yq_output,      \* line 106
    pc,             \* the line to execute next, or 108 / "raised"
    err             \* the exception that left the function

vars == <<x_arg, x_input, y_output, num_neighbors, q_quantile, var_weighting,
          minkowski_dist, var_weights, x_neighbors, indx, y_neighbors, i,
          yq_output, pc, err>>

N == Rows(x_input)

\* The call.  y_output and q_quantile are drawn where the body first reads
\* them (lines 97 and 106): the statements before do not depend on them.
Init ==
    /\ x_arg \in XInputs
    /\ x_input = x_arg
    /\ num_neighbors \in 0..(Rows(x_arg) + 1)
    /\ var_weighting \in BOOLEAN
    /\ minkowski_dist \in 1..MaxP
    /\ y_output = None
    /\ q_quantile = None
    /\ var_weights = None
    /\ x_neighbors = None
    /\ indx = None
    /\ y_neighbors = None
    /\ i = None
    /\ yq_output = None
    /\ pc = 80 /\ err = None
    /\ err = None

\* an exception leaves the function: pc stays on the raising line
Raise(e) == err' = e /\ UNCHANGED pc

\* lines 80-82
Weigh ==
    /\ pc = 80 /\ err = None
    /\ IF var_weighting
       THEN /\ var_weights' = NpVar(x_input)
            /\ x_input' = Weighted(x_input, NpVar(x_input))
       ELSE UNCHANGED <<var_weights, x_input>>
    /\ pc' = 89
    /\ UNCHANGED <<x_arg, y_output, num_neighbors, q_quantile, var_weighting,
                   minkowski_dist, x_neighbors, indx, y_neighbors, i,
                   yq_output, err>>

\* line 89: NearestNeighbors(n_neighbors, algorithm='auto', p).fit(x_input).
\* fit rejects n_neighbors <= 0 and non-finite data with a ValueError;
\* algorithm='auto' leaves the backend, and with it the order of equidistant
\* neighbours, to sklearn.
Fit ==
    /\ pc = 89 /\ err = None
    /\ IF num_neighbors <= 0 \/ ~AllFinite(x_input)
       THEN Raise("ValueError") /\ UNCHANGED x_neighbors
       ELSE /\ \E tie \in TieOrders :
                 x_neighbors' = [n_neighbors |-> num_neighbors,
                                 p |-> minkowski_dist,
                                 fit_X |-> x_input,
                                 tie |-> tie]
            /\ pc' = 90
            /\ UNCHANGED err
    /\ UNCHANGED <<x_arg, x_input, y_output, num_neighbors, q_quantile,
                   var_weighting, minkowski_dist, var_weights, indx,
                   y_neighbors, i, yq_output>>

\* line 90: dist, indx = x_neighbors.kneighbors(x_input).
\* kneighbors rejects n_neighbors > n_samples_fit with a ValueError.
Query ==
    /\ pc = 90 /\ err = None
    /\ IF x_neighbors.n_neighbors > Rows(x_neighbors.fit_X)
       THEN Raise("ValueError") /\ UNCHANGED indx
       ELSE /\ indx' = Kneighbors(x_neighbors, x_input)
            /\ pc' = 97
            /\ UNCHANGED err
    /\ UNCHANGED <<x_arg, x_input, y_output, num_neighbors, q_quantile,
                   var_weighting, minkowski_dist, var_weights, x_neighbors,
                   y_neighbors, i, yq_output>>

\* What is left of a matrix once only np.size(X, 0) is read from it
ShapeOnly(X) == [r \in 1..Rows(X) |-> <<>>]

\* line 97: y_neighbors = y_output[indx[0,:]].
\* From here on the body reads indx, y_output, q_quantile and the row count
\* of x_input only: the contents of the matrices, the weights, the estimator
\* and the two search parameters are dead and are dropped from the state.
Gather0 ==
    /\ pc = 97 /\ err = None
    /\ \E y \in YOutputs(N) :
        /\ y_output' = y
        /\ IF InRange(y, indx[1])
           THEN /\ y_neighbors' = [ndim |-> 1, v |-> Take(y, indx[1])]
                /\ i' = 1
                /\ pc' = 98
                /\ UNCHANGED err
           ELSE Raise("IndexError") /\ UNCHANGED <<y_neighbors, i>>
    /\ x_arg' = None
    /\ x_input' = ShapeOnly(x_input)
    /\ var_weights' = None
    /\ x_neighbors' = None
    /\ var_weighting' = None
    /\ minkowski_dist' = None
    /\ UNCHANGED <<num_neighbors, q_quantile, indx, yq_output>>

\* lines 98-100, one iteration: for i in range(1, np.size(x_input,0))
LoopStep ==
    /\ pc = 98 /\ err = None
    /\ i < N
    /\ IF InRange(y_output, indx[i + 1])
       THEN /\ y_neighbors' = VStack(y_neighbors, Take(y_output, indx[i + 1]))
            /\ i' = i + 1
            /\ UNCHANGED <<pc, err>>
       ELSE Raise("IndexError") /\ UNCHANGED <<y_neighbors, i>>
    /\ UNCHANGED <<x_arg, x_input, y_output, num_neighbors, q_quantile,
                   var_weighting, minkowski_dist, var_weights, x_neighbors,
                   indx, yq_output>>

\* line 98, the range is exhausted
LoopExit ==
    /\ pc = 98 /\ err = None
    /\ i >= N
    /\ pc' = 106
    /\ UNCHANGED <<x_arg, x_input, y_output, num_neighbors, q_quantile,
                   var_weighting, minkowski_dist, var_weights, x_neighbors,
                   indx, y_neighbors, i, yq_output, err>>

\* lines 106-108: yq_output = np.quantile(y_neighbors, q, axis=1); return.
\* axis=1 of a 1-D array is an AxisError.
QuantileReturn ==
    /\ pc = 106 /\ err = None
    /\ \E q \in Quantiles :
        /\ q_quantile' = q
        /\ IF y_neighbors.ndim < 2
           THEN Raise("AxisError") /\ UNCHANGED yq_output
           ELSE /\ yq_output' = QuantileAxis1(y_neighbors, q)
                /\ pc' = 108
                /\ UNCHANGED err
    /\ UNCHANGED <<x_arg, x_input, y_output, num_neighbors, var_weighting,
                   minkowski_dist, var_weights, x_neighbors, indx,
                   y_neighbors, i>>

Next == Weigh \/ Fit \/ Query \/ Gather0 \/ LoopStep \/ LoopExit \/ QuantileReturn

Spec == Init /\ [][Next]_vars

\* ------------------------------------------------------- reading the state
Returned == pc = 108
Raised == err /= None
\* the search inputs (x_arg, x_input, var_weighting, ...) are still in the state
XLive == pc < 97 \/ (pc = 97 /\ err = None)
\* y_output has been read (line 97 has executed)
YRead == ~XLive

InvalidKArg == num_neighbors < 1 \/ num_neighbors > N
ZeroVarColumn(X) == \E j \in 1..NumFeatures : Var(X, j).n = 0
DegenerateCall == XLive /\ var_weighting /\ ZeroVarColumn(x_arg)

\* the call is valid (section 7 of the specification): none of ShapeMismatch,
\* InvalidK and DegenerateFeature applies (q_quantile and minkowski_dist are
\* always drawn valid).  Once y_output is read, line 89 has accepted the
\* features.
ValidCall ==
    /\ ~InvalidKArg
    /\ IF XLive THEN ~DegenerateCall ELSE Len(y_output) = N

\* the y_output values at the neighbours of sample r (1-based row of indx)
NeighborValues(r) == [c \in 1..Len(indx[r]) |-> y_output[indx[r][c] + 1]]
MinOf(v) == CHOOSE a \in {v[c] : c \in 1..Len(v)} : \A c \in 1..Len(v) : a <= v[c]
MaxOf(v) == CHOOSE a \in {v[c] : c \in 1..Len(v)} : \A c \in 1..Len(v) : a >= v[c]
\* the j-th smallest value of v, by counting
OrderStat(v, j) ==
    CHOOSE a \in {v[c] : c \in 1..Len(v)} :
        /\ Cardinality({c \in 1..Len(v) : v[c] < a}) < j
        /\ Cardinality({c \in 1..Len(v) : v[c] <= a}) >= j
\* the linear-interpolation q-quantile of v: with h = (k - 1) q,
\* (1 - frac(h)) * v_(floor(h) + 1) + frac(h) * v_(floor(h) + 2)
LinearQuantile(v, q) ==
    LET k == Len(v)
        h == RMul(RInt(k - 1), q)
        lo == h.n \div h.d
        g == RSub(h, RInt(lo))
        a == OrderStat(v, lo + 1)
        b == OrderStat(v, IF lo + 2 <= k THEN lo + 2 ELSE k)
    IN RAdd(RMul(RSub(RInt(1), g), RInt(a)), RMul(g, RInt(b)))

\* the features the neighbour search is specified to use: x_arg, each column
\* divided by its population variance when var_weighting is set
PopVariance(X, j) ==
    LET c == [r \in 1..Rows(X) |-> X[r][j].n]
    IN Rat(Rows(X) * ISum([r \in 1..Rows(X) |-> c[r] * c[r]]) - ISum(c) * ISum(c),
           Rows(X) * Rows(X))
SearchFeatures ==
    [r \in 1..N |-> [j \in 1..NumFeatures |->
        IF var_weighting
        THEN LET v == PopVariance(x_arg, j) IN RMul(x_arg[r][j], Rat(v.d, v.n))
        ELSE x_arg[r][j]]]
\* sum over the features of |u_j - v_j|^p: the Minkowski distance of order p
\* between u and v, to the power p
RECURSIVE MinkowskiP(_, _, _)
MinkowskiP(u, v, p) ==
    IF u = <<>> THEN RInt(0)
    ELSE RAdd(RPow(RAbs(RSub(u[1], v[1])), p), MinkowskiP(Tail(u), Tail(v), p))
\* distance (to the power p) between samples a and b, 0-based
SearchDist(a, b) ==
    MinkowskiP(SearchFeatures[a + 1], SearchFeatures[b + 1], minkowski_dist)

\* row r of indx lists num_neighbors distinct samples, nearest first, and no
\* sample left out is strictly nearer than a listed one
NearestRow(r) ==
    /\ Len(indx[r]) = num_neighbors
    /\ \A c \in 1..num_neighbors : indx[r][c] \in 0..(N - 1)
    /\ \A c, c2 \in 1..num_neighbors : c < c2 =>
          /\ indx[r][c] /= indx[r][c2]
          /\ RLeq(SearchDist(r - 1, indx[r][c]), SearchDist(r - 1, indx[r][c2]))
    /\ \A m \in 0..(N - 1) :
          (\A c \in 1..num_neighbors : indx[r][c] /= m) =>
              \A c \in 1..num_neighbors :
                  RLeq(SearchDist(r - 1, indx[r][c]), SearchDist(r - 1, m))

\* ------------------------------------------------------------------ claims

\* C1: every valid call (N >= 1, len(y_output) = N, 1 <= num_neighbors <= N,
\* no degenerate feature) returns a vector of length exactly N, N = 1 with
\* num_neighbors = 1 included.
C1_ShapeInvariant ==
    (Returned \/ Raised) /\ ValidCall => Returned /\ Len(yq_output) = N

\* C2: the value returned at position i is the linear-interpolation
\* q_quantile of the y_output values at the num_neighbors nearest neighbours
\* of row i (Minkowski distance of order minkowski_dist on the possibly
\* inverse-variance-weighted features, the sample itself eligible); q = 0
\* gives their minimum, q = 1 their maximum, q = 1/2 with odd num_neighbors
\* the middle order statistic.
C2_QuantileOfNearest ==
    /\ pc = 97 /\ err = None => \A r \in 1..N : NearestRow(r)
    /\ Returned =>
         /\ Len(yq_output) = N
         /\ \A r \in 1..N :
              LET v == NeighborValues(r) IN
              /\ yq_output[r] = LinearQuantile(v, q_quantile)
              /\ q_quantile = RInt(0) => yq_output[r] = RInt(MinOf(v))
              /\ q_quantile = RInt(1) => yq_output[r] = RInt(MaxOf(v))
              /\ q_quantile = Rat(1, 2) /\ Len(v) % 2 = 1 =>
                     yq_output[r] = RInt(OrderStat(v, (Len(v) + 1) \div 2))

C2_Witness ==
    /\ Returned /\ N = 3 /\ num_neighbors = 3 /\ q_quantile = Rat(1, 2)
    /\ Len(y_output) = N
    /\ \E r \in 1..N : indx[r] = <<r - 1, 2, 0>> /\ NeighborValues(r) = <<2, 0, 1>>

\* C3: every returned value lies between the minimum and the maximum of the
\* y_output values of its sample's neighbours, for every q_quantile in [0,1].
C3_WithinNeighborRange ==
    Returned => \A r \in 1..Len(yq_output) :
        /\ RLeq(RInt(MinOf(NeighborValues(r))), yq_output[r])
        /\ RLeq(yq_output[r], RInt(MaxOf(NeighborValues(r))))

C3_Witness ==
    /\ Returned /\ num_neighbors = 2 /\ q_quantile = Rat(3, 4)
    /\ \E r \in 1..Len(yq_output) :
        /\ RLess(RInt(MinOf(NeighborValues(r))), yq_output[r])
        /\ RLess(yq_output[r], RInt(MaxOf(NeighborValues(r))))

\* C4: with num_neighbors = 1 and no two identical rows (after weighting),
\* every sample's single neighbour is itself and the call returns y_output
\* unchanged, for every q_quantile in [0,1] and every N >= 1.
NoDuplicateRows(X) == \A r, r2 \in 1..Rows(X) : r /= r2 => X[r] /= X[r2]
SelfNeighbors == \A r \in 1..N : indx[r] = <<r - 1>>
C4_KOneIdentity ==
    /\ pc = 97 /\ err = None /\ num_neighbors = 1 /\ NoDuplicateRows(x_input)
           => SelfNeighbors
    /\ (Returned \/ Raised) /\ YRead /\ num_neighbors = 1 /\ Len(y_output) = N
           /\ SelfNeighbors
           => /\ Returned
              /\ yq_output = [r \in 1..N |-> RInt(y_output[r])]

\* C5: a call with num_neighbors < 1 or num_neighbors > N fails with InvalidK,
\* raised before any stage (feature weighting first) has run.
C5_InvalidKBeforeComputation ==
    InvalidKArg /\ ~DegenerateCall =>
        /\ ~(pc > 80 /\ var_weighting)
        /\ err \in {None, "InvalidK"}

\* C6: when len(y_output) differs from N the call fails with ShapeMismatch
\* and never returns a result computed from the misaligned y_output.
C6_NoResultOnShapeMismatch ==
    YRead /\ Len(y_output) /= N => ~Returned

\* C7: with var_weighting set and a zero-variance column the call reports
\* DegenerateFeature instead of continuing with an infinite or nan weight.
C7_DegenerateFeatureReported ==
    DegenerateCall /\ ~InvalidKArg =>
        /\ AllFinite(x_input)
        /\ err \in {None, "DegenerateFeature"}

\* C8: for fixed neighbour sets the filtered value of each sample is
\* non-decreasing in q_quantile: q1 <= q2 implies output_q1[i] <= output_q2[i].
C8_MonotoneInQ ==
    Returned => \A q2 \in Quantiles : \A r \in 1..Len(yq_output) :
        /\ RLeq(q_quantile, q2) =>
               RLeq(yq_output[r], QuantileAxis1(y_neighbors, q2)[r])
        /\ RLeq(q2, q_quantile) =>
               RLeq(QuantileAxis1(y_neighbors, q2)[r], yq_output[r])

C8_Witness ==
    /\ Returned /\ num_neighbors = 3 /\ q_quantile = Rat(1, 4)
    /\ \E r \in 1..Len(yq_output) :
          RLess(yq_output[r], QuantileAxis1(y_neighbors, Rat(3, 4))[r])

\* C9: when all feature columns have the same non-zero variance, the
\* neighbour table found with var_weighting = true is the one found with
\* var_weighting = false (so the two calls return the same vector: the
\* statements after line 90 read indx, y_output and q_quantile only).
EqualNonZeroVariance(X) ==
    \A j \in 1..NumFeatures : Var(X, j) = Var(X, 1) /\ Var(X, j).n /= 0
UnweightedIndx == Kneighbors([x_neighbors EXCEPT !.fit_X = x_arg], x_arg)
C9_WeightingInvariance ==
    pc = 97 /\ err = None /\ var_weighting /\ EqualNonZeroVariance(x_arg)
        => indx = UnweightedIndx

C9_Witness ==
    /\ pc = 97 /\ err = None /\ var_weighting /\ EqualNonZeroVariance(x_arg)
    /\ N = 3 /\ num_neighbors = 2 /\ minkowski_dist = 2
    /\ x_input /= x_arg
    /\ indx[1] = <<0, 2>>

\* C10: the accumulation loop builds the complete Neighbor Output Table:
\* after j steps the accumulator holds rows 0..j, and when the loop ends it
\* is a table of exactly N rows of k values with entry [i,j] =
\* y_output[indx[i,j]], for every N >= 1.
AccumulatedRows == IF y_neighbors.ndim = 1 THEN <<y_neighbors.v>> ELSE y_neighbors.v
C10_CompleteTable ==
    /\ pc = 98 /\ err = None =>
          AccumulatedRows = [r \in 1..i |-> NeighborValues(r)]
    /\ pc \in {106, 108} =>
          /\ y_neighbors.ndim = 2
          /\ y_neighbors.v = [r \in 1..N |-> NeighborValues(r)]

====
